---- MODULE Spec2Model ----
(***************************************************************************)
(* LightCPURenderEngine (src/slg/engines/lightcpu/lightcpu.cpp): the       *)
(* controller of the light-tracing engine.  One application thread calls   *)
(* the engine's operations one after the other (pc is its position inside  *)
(* the operation in progress); the render workers spawned by the base      *)
(* engine run concurrently with it.                                        *)
(*                                                                         *)
(* Floats are kept in tenths (0.5f is 5); unsigned ints wrap around.        *)
(***************************************************************************)
EXTENDS Integers, Sequences, FiniteSets, TLC

\* ------------------------------------------------------------------ bounds

\* Render workers of the base CPU engine.
NumWorkers == 1
\* Sample splatters one engine may allocate during its life.
MaxSplatters == 2
\* Length of a chain of resumes.
MaxResumes == 2

Workers == 1..NumWorkers

\* u_int arithmetic wraps at 2^32; the model's words are narrower, and wrap
\* the same way.
UIntModulus == 16
UIntMax == UIntModulus - 1

\* ------------------------------------------------- property bags (Properties)

\* A Properties object is a function from the names it defines to values.
EmptyProps == [k \in {} |-> 0]

\* Properties::IsDefined
IsDefined(props, name) == name \in DOMAIN props

\* Properties::Get(const Property &defaultProp): the bag's own value when the
\* name is defined, the default property's value otherwise.
PropsGet(props, name, dflt) == IF IsDefined(props, name) THEN props[name] ELSE dflt

\* Properties::operator<< : the right operand's properties are set on the left.
PropsSet(props, more) == more @@ props

\* One property as a bag.
Prop(name, value) == name :> value

\* GetDefaultProps with the two depth defaults exchanged.
GetDefaultPropsDepthsSwapped ==
    Prop("renderengine.type", "LIGHTCPU") @@
    Prop("light.maxdepth", 3) @@
    Prop("light.russianroulette.depth", 5) @@
    Prop("light.russianroulette.cap", 5) @@
    Prop("path.clamping.variance.maxvalue", 0)

\* LightCPURenderEngine::GetDefaultProps (the cap in tenths).
GetDefaultProps ==
    Prop("renderengine.type", "LIGHTCPU") @@
    Prop("light.maxdepth", 5) @@
    Prop("light.russianroulette.depth", 3) @@
    Prop("light.russianroulette.cap", 5) @@
    Prop("path.clamping.variance.maxvalue", 0)

\* GetObjectTag of this engine, and the tag of another engine of the family.
GetObjectTag == "LIGHTCPU"
OtherEngineTag == "PATHCPU"

\* Max(0.f, v)
Max(a, b) == IF a > b THEN a ELSE b

\* ------------------------------------------------------------ configuration

\* Camera::GetType() of the configured scene camera.
CameraTypes == {"PERSPECTIVE", "ORTHOGRAPHIC", "STEREO", "ENVIRONMENT"}

\* Sampler::ToProperties: the sampler keys of the configuration, with their
\* defaults.
SamplerToProperties(cfg) ==
    Prop("sampler.type", PropsGet(cfg, "sampler.type", "SOBOL"))

\* CPUNoTileRenderEngine::ToProperties: the keys of the base CPU engine.
BaseToProperties(cfg) ==
    Prop("native.threads.count", PropsGet(cfg, "native.threads.count", NumWorkers))

\* CheckSamplersForNoTile: the samplers a non-tiled engine accepts.
SamplerOK(cfg) ==
    PropsGet(cfg, "sampler.type", "SOBOL") \in {"RANDOM", "SOBOL", "METROPOLIS"}

\* StartLockLess, line 64
ResolveMaxPathDepth(cfg) ==
    PropsGet(cfg, "light.maxdepth", GetDefaultProps["light.maxdepth"])

\* StartLockLess, line 65
ResolveRRDepth(cfg) ==
    PropsGet(cfg, "light.russianroulette.depth",
             GetDefaultProps["light.russianroulette.depth"])

\* StartLockLess, line 66
ResolveRRImportanceCap(cfg) ==
    PropsGet(cfg, "light.russianroulette.cap",
             GetDefaultProps["light.russianroulette.cap"])

\* Lines 70-73 with the two keys exchanged: the old key replaces the new one.
ResolveSqrtVarianceClampMaxValueOldKeyWins(cfg) ==
    LET new == PropsGet(cfg, "path.clamping.variance.maxvalue",
                        GetDefaultProps["path.clamping.variance.maxvalue"])
        v   == IF IsDefined(cfg, "path.clamping.radiance.maxvalue")
               THEN PropsGet(cfg, "path.clamping.radiance.maxvalue", 0)
               ELSE new
    IN Max(0, v)

\* StartLockLess, lines 70-73: the old radiance clamping key first, replaced
\* by the variance clamping key when that one is defined, then Max(0.f, .).
ResolveSqrtVarianceClampMaxValue(cfg) ==
    LET old == PropsGet(cfg, "path.clamping.radiance.maxvalue", 0)
        v   == IF IsDefined(cfg, "path.clamping.variance.maxvalue")
               THEN PropsGet(cfg, "path.clamping.variance.maxvalue",
                             GetDefaultProps["path.clamping.variance.maxvalue"])
               ELSE old
    IN Max(0, v)

\* LightCPURenderEngine::ToProperties
ToProperties(cfg) ==
    PropsSet(PropsSet(PropsSet(PropsSet(PropsSet(
        BaseToProperties(cfg),
        Prop("renderengine.type",
             PropsGet(cfg, "renderengine.type", GetDefaultProps["renderengine.type"]))),
        Prop("light.maxdepth",
             PropsGet(cfg, "light.maxdepth", GetDefaultProps["light.maxdepth"]))),
        Prop("light.russianroulette.depth",
             PropsGet(cfg, "light.russianroulette.depth",
                      GetDefaultProps["light.russianroulette.depth"]))),
        Prop("light.russianroulette.cap",
             PropsGet(cfg, "light.russianroulette.cap",
                      GetDefaultProps["light.russianroulette.cap"]))),
        SamplerToProperties(cfg))

\* The configurations an application hands to the engine: each recognized key
\* either absent or set.
OptionalProp(name, values) == {EmptyProps} \cup {Prop(name, v) : v \in values}

AllConfigs ==
    { a @@ b @@ c @@ d @@ e @@ f :
        a \in OptionalProp("light.maxdepth", {8}),
        b \in OptionalProp("light.russianroulette.depth", {2}),
        c \in OptionalProp("light.russianroulette.cap", {20}),
        d \in OptionalProp("path.clamping.variance.maxvalue", {-10, 30}),
        e \in OptionalProp("path.clamping.radiance.maxvalue", {-20, 40}),
        f \in OptionalProp("sampler.type", {"TILEPATHSAMPLER"}) }

\* The configurations of the lifecycle specification.
LifecycleConfigs ==
    { EmptyProps,
      Prop("sampler.type", "TILEPATHSAMPLER"),
      Prop("light.maxdepth", 8) @@ Prop("path.clamping.variance.maxvalue", 30) }

\* -------------------------------------------------------------------- state

VARIABLES
    alive,                      \* an engine object exists
    camera,                     \* rcfg->scene->camera->GetType() of the last construction
    cfg,                        \* renderConfig->cfg
    bootStrapSeed,              \* RenderEngine::bootStrapSeed
    startRenderState,           \* RenderEngine::startRenderState: <<>> is NULL
    hasStartFilm,               \* RenderEngine::hasStartFilm
    sampleSplatter,             \* the pointer: 0 is NULL, else a splatter's address
    maxPathDepth,
    rrDepth,
    rrImportanceCap,            \* in tenths
    sqrtVarianceClampMaxValue,  \* in tenths
    initialized,                \* the four parameters above hold values
    splatters,                  \* the FilmSampleSplatter objects of this engine's life
    workers,                    \* the render threads of the base engine
    pc,                         \* the application thread's position
    result,                     \* how the last operation ended
    heldState,                  \* the RenderState the application holds: <<>> is none
    exported,                   \* the Properties the application got from ToProperties
    origCfg,                    \* history: the configuration cfg was derived from
    entry,                      \* history: the engine at the entry of the Start in progress
    consumed,                   \* history: the RenderState the last Start consumed
    lineage,                    \* history: first seed of the chain of resumes, and its length
    returned,                   \* history: seeds GetRenderState returned since the last Start
    splatFault,                 \* history: first splat through a released or NULL splatter
    destroyed,                  \* history: deletions of the RenderState last handed over
    pathDepth,                  \* per render thread: depth of its path in flight, 0 for none
    radiance,                   \* the film's radiance channel: per pixel, the sum splatted
    splatCount,                 \* the samples the film has received
    pathFate,                   \* history: what became of the latest contribution
    rrBelow,                    \* history: a roulette test was made below rrDepth
    imagePipeline,              \* film.GetImagePipeline(): <<>> for NULL
    pixels,                     \* channel_RGB_TONEMAPPED
    mask,                       \* channel_FRAMEBUFFER_MASK
    applyKernel,                \* AutoLinearToneMap::applyKernel with its arguments
    filmOp                      \* history: the latest operation on the film's image

paramVars ==
    <<maxPathDepth, rrDepth, rrImportanceCap, sqrtVarianceClampMaxValue, initialized>>

engineVars ==
    <<bootStrapSeed, startRenderState, hasStartFilm, sampleSplatter, paramVars>>

configVars == <<camera, cfg, origCfg>>

historyVars == <<entry, consumed, lineage, destroyed, returned, splatFault>>

pathVars == <<pathDepth, radiance, splatCount, pathFate, rrBelow>>

toneVars == <<imagePipeline, pixels, mask, applyKernel, filmOp>>

filmVars == <<pathVars, toneVars>>

\* What no operation on the film or its image pipeline changes.
engineFrame ==
    <<alive, configVars, engineVars, splatters, workers, pc, result, heldState,
      exported, historyVars>>

vars ==
    <<alive, configVars, engineVars, splatters, workers, pc, result, heldState,
      exported, historyVars, filmVars>>

\* The seeds a freshly constructed engine is given.
FreshSeeds == {7, UIntMax}

\* What uninitialized members and memory outside an object may hold.
MemoryWords == {0, 6}

\* LightCPURenderState(bootStrapSeed): the engine's tag and the seed; root and
\* hops are history (the chain of resumes the snapshot belongs to).
LightCPURenderState(seed, lin) ==
    [tag |-> GetObjectTag, seed |-> seed, root |-> lin.root, hops |-> lin.hops]

\* A RenderState of another engine of the family.
OtherRenderStates ==
    {[tag |-> OtherEngineTag, seed |-> s, root |-> s, hops |-> 0] : s \in {7}}

NoSplatters == [p \in 1..MaxSplatters |-> "unallocated"]
\* A render thread is "stopped", "spawned" (started by the latest Start, no
\* path traced yet) or "running".
NoWorkers == [w \in Workers |-> "stopped"]
NoLineage == [root |-> 0, hops |-> 0]

\* delete p: nothing for NULL; the object is released and remembers the
\* operation that released it.
Delete(heap, p, by) ==
    IF p = 0 THEN heap
    ELSE [heap EXCEPT ![p] = IF @ = "live" THEN by ELSE "released twice"]

\* new FilmSampleSplatter: an address not used before.
FreeSplatters == {p \in 1..MaxSplatters : splatters[p] = "unallocated"}
NewSplatter == CHOOSE p \in FreeSplatters : \A q \in FreeSplatters : p <= q

\* ---------------------------------------------------------------- the film

\* film.GetWidth() * film.GetHeight()
PixelCount == 3
FilmPixels == 1..PixelCount

\* A float: finite (v, in tenths), +infinity or NaN.
Finite(v) == [k |-> "fin", v |-> v]
PInf == [k |-> "inf", v |-> 0]
NaN == [k |-> "nan", v |-> 0]

\* isinf(y)
IsInf(y) == y.k = "inf"
IsNaN(y) == y.k = "nan"

\* y <= 0.f: false for NaN as every comparison with NaN is.
LeZero(y) == y.k = "fin" /\ y.v <= 0

\* a + b in floats: NaN if either is, else +infinity if either is.
FAdd(a, b) ==
    IF IsNaN(a) \/ IsNaN(b) THEN NaN
    ELSE IF IsInf(a) \/ IsInf(b) THEN PInf
    ELSE Finite(a.v + b.v)

\* A render thread with no path in flight.
NoPaths == [w \in Workers |-> 0]

\* The film as Film::Init leaves it: nothing accumulated, black image, no
\* pixel with a sample.
ClearFilm == [p \in FilmPixels |-> Finite(0)]
ClearImage == [p \in FilmPixels |-> [c |-> "black", scale |-> <<>>]]
NoMask == [p \in FilmPixels |-> FALSE]

\* The engine as Start finds it.
Snapshot ==
    [bootStrapSeed |-> bootStrapSeed, startRenderState |-> startRenderState,
     hasStartFilm |-> hasStartFilm, sampleSplatter |-> sampleSplatter,
     maxPathDepth |-> maxPathDepth, rrDepth |-> rrDepth,
     rrImportanceCap |-> rrImportanceCap,
     sqrtVarianceClampMaxValue |-> sqrtVarianceClampMaxValue,
     initialized |-> initialized,
     splatters |-> splatters, workers |-> workers]

Init ==
    /\ alive = FALSE
    /\ camera = "PERSPECTIVE"
    /\ cfg = EmptyProps
    /\ origCfg = EmptyProps
    /\ bootStrapSeed = 0
    /\ startRenderState = <<>>
    /\ hasStartFilm = FALSE
    /\ sampleSplatter = 0
    /\ maxPathDepth = 0
    /\ rrDepth = 0
    /\ rrImportanceCap = 0
    /\ sqrtVarianceClampMaxValue = 0
    /\ initialized = FALSE
    /\ splatters = NoSplatters
    /\ workers = NoWorkers
    /\ pc = "idle"
    /\ result = "none"
    /\ heldState = <<>>
    /\ exported = <<>>
    /\ entry = <<>>
    /\ consumed = <<>>
    /\ lineage = NoLineage
    /\ returned = {}
    /\ splatFault = "none"
    /\ destroyed = 0
    /\ pathDepth = NoPaths
    /\ radiance = ClearFilm
    /\ splatCount = 0
    /\ pathFate = [w |-> 0, fate |-> "none"]
    /\ rrBelow = FALSE
    /\ imagePipeline = <<>>
    /\ pixels = ClearImage
    /\ mask = NoMask
    /\ applyKernel = <<>>
    /\ filmOp = "Init"

\* ------------------------------------------------- construction, destruction

\* The test of line 31 against another camera type of the enumeration.
CameraRejectedWrongType(cam) == cam = "ENVIRONMENT"

\* Line 31: the camera type the constructor throws for.
CameraRejected(cam) == cam = "STEREO"

\* LightCPURenderEngine::LightCPURenderEngine (lines 29-33), for the
\* configuration c (derived from o) and a scene camera of type cam.  The base
\* constructor supplies the seed and a NULL startRenderState.  No constructor
\* gives the four rendering parameters a value: they hold none (initialized
\* is FALSE, and nothing reads them) until StartLockLess assigns them.
Construct(c, o, cam) ==
    /\ ~alive
    /\ pc = "idle"
    /\ camera' = cam
    /\ IF CameraRejected(cam)
       THEN /\ result' = "runtime_error"
            /\ UNCHANGED <<alive, cfg, origCfg, engineVars, splatters, workers,
                           historyVars>>
       ELSE /\ result' = "constructed"
            /\ alive' = TRUE
            /\ cfg' = c
            /\ origCfg' = o
            /\ sampleSplatter' = 0
            /\ startRenderState' = <<>>
            /\ \E s \in FreshSeeds :
                  /\ bootStrapSeed' = s
                  /\ lineage' = [root |-> s, hops |-> 0]
            /\ hasStartFilm' \in BOOLEAN
            /\ initialized' = FALSE
            /\ UNCHANGED <<maxPathDepth, rrDepth, rrImportanceCap,
                           sqrtVarianceClampMaxValue>>
            /\ splatters' = NoSplatters
            /\ workers' = NoWorkers
            /\ entry' = <<>>
            /\ consumed' = <<>>
            /\ destroyed' = 0
            /\ returned' = {}
            /\ splatFault' = "none"
    /\ UNCHANGED <<pc, heldState, filmVars>>

\* The application constructs an engine for a configuration of its own.
ConstructLifecycle ==
    /\ exported = <<>>
    /\ \E c \in LifecycleConfigs, cam \in {"PERSPECTIVE", "STEREO"} :
          Construct(c, c, cam)
    /\ UNCHANGED exported

ConstructAny ==
    /\ exported = <<>>
    /\ \E c \in AllConfigs, cam \in CameraTypes : Construct(c, c, cam)
    /\ UNCHANGED exported

\* The application constructs an engine from the Properties it exported.
ConstructExported ==
    /\ exported # <<>>
    /\ \E cam \in CameraTypes : Construct(exported[1].props, exported[1].of, cam)
    /\ exported' = <<>>

\* ToProperties(cfg) (static, lines 116-123) of the running engine's configuration.
ToPropertiesCall ==
    /\ alive
    /\ pc = "idle"
    /\ exported = <<>>
    /\ exported' = <<[props |-> ToProperties(cfg), of |-> cfg]>>
    /\ result' = "ok"
    /\ entry' = <<>>
    /\ UNCHANGED <<alive, configVars, engineVars, splatters, workers, pc,
                   heldState, filmVars, consumed, lineage, destroyed, returned,
                   splatFault>>

\* ~LightCPURenderEngine is entered.
DestructCall ==
    /\ alive
    /\ pc = "idle"
    /\ pc' = "dtor_delete"
    /\ result' = "running"
    /\ entry' = <<>>
    /\ UNCHANGED <<alive, configVars, engineVars, splatters, workers, heldState,
                   filmVars, exported, consumed, lineage, destroyed, returned,
                   splatFault>>

\* ~LightCPURenderEngine, line 36: delete sampleSplatter.
DestructDelete ==
    /\ pc = "dtor_delete"
    /\ splatters' = Delete(splatters, sampleSplatter, "Destruct")
    /\ pc' = "dtor_base"
    /\ UNCHANGED <<alive, configVars, engineVars, workers, result, heldState,
                   filmVars, exported, historyVars>>

\* The base destructors: the render threads are stopped and the object is gone.
DestructBase ==
    /\ pc = "dtor_base"
    /\ alive' = FALSE
    /\ workers' = NoWorkers
    /\ bootStrapSeed' = 0
    /\ startRenderState' = <<>>
    /\ hasStartFilm' = FALSE
    /\ sampleSplatter' = 0
    /\ maxPathDepth' = 0
    /\ rrDepth' = 0
    /\ rrImportanceCap' = 0
    /\ sqrtVarianceClampMaxValue' = 0
    /\ initialized' = FALSE
    /\ splatters' = NoSplatters
    /\ cfg' = EmptyProps
    /\ origCfg' = EmptyProps
    /\ entry' = <<>>
    /\ consumed' = <<>>
    /\ lineage' = NoLineage
    /\ destroyed' = 0
    /\ returned' = {}
    /\ pc' = "idle"
    /\ result' = "destroyed"
    /\ UNCHANGED <<camera, heldState, filmVars, exported, splatFault>>

\* -------------------------------------------------------------------- Start

\* Start() is called: StartLockLess is entered.  The render threads still
\* running are those of earlier runs.
StartCall ==
    /\ alive
    /\ pc = "idle"
    /\ FreeSplatters # {}
    /\ pc' = "start_check"
    /\ result' = "running"
    /\ entry' = <<Snapshot>>
    /\ consumed' = <<>>
    /\ returned' = {}
    /\ workers' = [w \in Workers |->
                      IF workers[w] = "spawned" THEN "running" ELSE workers[w]]
    /\ UNCHANGED <<alive, configVars, engineVars, splatters, heldState,
                   filmVars, exported, lineage, destroyed, splatFault>>

\* An exception leaves StartLockLess at once.
Throw(what) ==
    /\ pc' = "idle"
    /\ result' = what

\* The sampler check made after the rendering parameters are read.
StartCheckSamplersAfterParams ==
    /\ pc = "start_check"
    /\ IF SamplerOK(cfg)
       THEN pc' = "start_params" /\ UNCHANGED <<result, paramVars>>
       ELSE /\ maxPathDepth' = ResolveMaxPathDepth(cfg)
            /\ rrDepth' = ResolveRRDepth(cfg)
            /\ rrImportanceCap' = ResolveRRImportanceCap(cfg)
            /\ sqrtVarianceClampMaxValue' = ResolveSqrtVarianceClampMaxValue(cfg)
            /\ initialized' = TRUE
            /\ Throw("IncompatibleSampler")
    /\ UNCHANGED <<alive, configVars, bootStrapSeed, startRenderState,
                   hasStartFilm, sampleSplatter, splatters, workers, heldState,
                   filmVars, exported, historyVars>>

\* Line 58: CheckSamplersForNoTile throws for a sampler of a tiled engine.
StartCheckSamplers ==
    /\ pc = "start_check"
    /\ IF SamplerOK(cfg)
       THEN pc' = "start_params" /\ UNCHANGED result
       ELSE Throw("IncompatibleSampler")
    /\ UNCHANGED <<alive, configVars, engineVars, splatters, workers, heldState,
                   filmVars, exported, historyVars>>

\* Lines 64-73: the rendering parameters.
StartParams ==
    /\ pc = "start_params"
    /\ maxPathDepth' = ResolveMaxPathDepth(cfg)
    /\ rrDepth' = ResolveRRDepth(cfg)
    /\ rrImportanceCap' = ResolveRRImportanceCap(cfg)
    /\ sqrtVarianceClampMaxValue' = ResolveSqrtVarianceClampMaxValue(cfg)
    /\ initialized' = TRUE
    /\ pc' = "start_restore"
    /\ UNCHANGED <<alive, configVars, bootStrapSeed, startRenderState,
                   hasStartFilm, sampleSplatter, splatters, workers, result,
                   heldState, filmVars, exported, historyVars>>

\* RenderState::CheckEngineTag(GetObjectTag()): whether it throws.
CheckEngineTagThrows(st) == st.tag # GetObjectTag

\* Lines 83 and 86: rs->bootStrapSeed, where rs is startRenderState cast to
\* LightCPURenderEngine *, not to LightCPURenderState *.  The object is no
\* LightCPURenderEngine: the read is of whatever lies at the engine member's
\* offset from the state's address, which may or may not be the stored seed.
ReadBootStrapSeed(st) == {st.seed} \cup MemoryWords

\* Line 86: rs->bootStrapSeed + 1, as a u_int.
NewSeed(word) == (word + 1) % UIntModulus

\* Lines 79-95 with the tag checked after the seed is set.
StartRestoreChecksLate ==
    /\ pc = "start_restore"
    /\ IF startRenderState # <<>>
       THEN LET st == startRenderState[1] IN
            /\ \E word \in ReadBootStrapSeed(st) : bootStrapSeed' = NewSeed(word)
            /\ hasStartFilm' = TRUE
            /\ IF CheckEngineTagThrows(st)
               THEN /\ Throw("RenderStateTypeMismatch")
                    /\ UNCHANGED <<startRenderState, consumed, lineage,
                                   destroyed>>
               ELSE /\ startRenderState' = <<>>
                    /\ consumed' = <<st>>
                    /\ lineage' = [root |-> st.root, hops |-> st.hops + 1]
                    /\ destroyed' = destroyed + 1
                    /\ pc' = "start_delete"
                    /\ UNCHANGED result
       ELSE /\ hasStartFilm' = FALSE
            /\ pc' = "start_delete"
            /\ UNCHANGED <<bootStrapSeed, startRenderState, consumed, lineage,
                           destroyed, result>>
    /\ UNCHANGED <<alive, configVars, sampleSplatter, paramVars, splatters,
                   workers, heldState, filmVars, exported, entry, returned,
                   splatFault>>

\* Lines 79-95 without line 91: the pointer is left at the deleted state.
StartRestoreKeepsState ==
    /\ pc = "start_restore"
    /\ IF startRenderState # <<>>
       THEN LET st == startRenderState[1] IN
            IF CheckEngineTagThrows(st)
            THEN /\ Throw("RenderStateTypeMismatch")
                 /\ UNCHANGED <<bootStrapSeed, startRenderState, hasStartFilm,
                                consumed, lineage, destroyed>>
            ELSE /\ \E word \in ReadBootStrapSeed(st) :
                        bootStrapSeed' = NewSeed(word)
                 /\ UNCHANGED startRenderState
                 /\ hasStartFilm' = TRUE
                 /\ consumed' = <<st>>
                 /\ lineage' = [root |-> st.root, hops |-> st.hops + 1]
                 /\ destroyed' = destroyed + 1
                 /\ pc' = "start_delete"
                 /\ UNCHANGED result
       ELSE /\ hasStartFilm' = FALSE
            /\ pc' = "start_delete"
            /\ UNCHANGED <<bootStrapSeed, startRenderState, consumed, lineage,
                           destroyed, result>>
    /\ UNCHANGED <<alive, configVars, sampleSplatter, paramVars, splatters,
                   workers, heldState, filmVars, exported, entry, returned,
                   splatFault>>

\* Lines 79-95 without line 95: hasStartFilm is set, never cleared.
StartRestoreKeepsFlag ==
    /\ pc = "start_restore"
    /\ IF startRenderState # <<>>
       THEN LET st == startRenderState[1] IN
            IF CheckEngineTagThrows(st)
            THEN /\ Throw("RenderStateTypeMismatch")
                 /\ UNCHANGED <<bootStrapSeed, startRenderState, hasStartFilm,
                                consumed, lineage, destroyed>>
            ELSE /\ \E word \in ReadBootStrapSeed(st) :
                        bootStrapSeed' = NewSeed(word)
                 /\ startRenderState' = <<>>
                 /\ hasStartFilm' = TRUE
                 /\ consumed' = <<st>>
                 /\ lineage' = [root |-> st.root, hops |-> st.hops + 1]
                 /\ destroyed' = destroyed + 1
                 /\ pc' = "start_delete"
                 /\ UNCHANGED result
       ELSE /\ UNCHANGED hasStartFilm
            /\ pc' = "start_delete"
            /\ UNCHANGED <<bootStrapSeed, startRenderState, consumed, lineage,
                           destroyed, result>>
    /\ UNCHANGED <<alive, configVars, sampleSplatter, paramVars, splatters,
                   workers, heldState, filmVars, exported, entry, returned,
                   splatFault>>

\* Lines 79-95: restore the render state if there is one.
StartRestore ==
    /\ pc = "start_restore"
    /\ IF startRenderState # <<>>
       THEN LET st == startRenderState[1] IN
            IF CheckEngineTagThrows(st)
            THEN /\ Throw("RenderStateTypeMismatch")
                 /\ UNCHANGED <<bootStrapSeed, startRenderState, hasStartFilm,
                                consumed, lineage, destroyed>>
            ELSE /\ \E word \in ReadBootStrapSeed(st) :
                        bootStrapSeed' = NewSeed(word)
                 /\ startRenderState' = <<>>
                 /\ hasStartFilm' = TRUE
                 /\ consumed' = <<st>>
                 /\ lineage' = [root |-> st.root, hops |-> st.hops + 1]
                 /\ destroyed' = destroyed + 1
                 /\ pc' = "start_delete"
                 /\ UNCHANGED result
       ELSE /\ hasStartFilm' = FALSE
            /\ pc' = "start_delete"
            /\ UNCHANGED <<bootStrapSeed, startRenderState, consumed, lineage,
                           destroyed, result>>
    /\ UNCHANGED <<alive, configVars, sampleSplatter, paramVars, splatters,
                   workers, heldState, filmVars, exported, entry, returned,
                   splatFault>>

\* Line 99: delete sampleSplatter (the pointer keeps the old address).
StartDelete ==
    /\ pc = "start_delete"
    /\ splatters' = Delete(splatters, sampleSplatter, "Start")
    /\ pc' = "start_new"
    /\ UNCHANGED <<alive, configVars, engineVars, workers, result, heldState,
                   filmVars, exported, historyVars>>

\* Line 100: sampleSplatter = new FilmSampleSplatter(pixelFilter).
StartNew ==
    /\ pc = "start_new"
    /\ sampleSplatter' = NewSplatter
    /\ splatters' = [splatters EXCEPT ![NewSplatter] = "live"]
    /\ pc' = "start_base"
    /\ UNCHANGED <<alive, configVars, bootStrapSeed, startRenderState,
                   hasStartFilm, paramVars, workers, result, heldState,
                   filmVars, exported, historyVars>>

\* Line 102: CPUNoTileRenderEngine::StartLockLess spawns the render threads.
StartBase ==
    /\ pc = "start_base"
    /\ workers' = [w \in Workers |-> "spawned"]
    /\ pc' = "idle"
    /\ result' = "started"
    /\ entry' = <<>>
    /\ UNCHANGED <<alive, configVars, engineVars, splatters, heldState,
                   filmVars, exported, consumed, lineage, destroyed, returned,
                   splatFault>>

\* --------------------------------------------------------------------- Stop

\* Stop() is called: StopLockLess is entered.
StopCall ==
    /\ alive
    /\ pc = "idle"
    /\ pc' = "stop_base"
    /\ result' = "running"
    /\ entry' = <<>>
    /\ UNCHANGED <<alive, configVars, engineVars, splatters, workers, heldState,
                   filmVars, exported, consumed, lineage, destroyed, returned,
                   splatFault>>

\* Line 106: CPUNoTileRenderEngine::StopLockLess interrupts and joins the
\* render threads, which finish the path they are tracing.
StopBase ==
    /\ pc = "stop_base"
    /\ \A w \in Workers : pathDepth[w] = 0
    /\ workers' = NoWorkers
    /\ pc' = "stop_delete"
    /\ UNCHANGED <<alive, configVars, engineVars, splatters, result, heldState,
                   filmVars, exported, historyVars>>

\* Line 108 without line 109: the pointer keeps the released address.
StopDeleteKeepsPointer ==
    /\ pc = "stop_delete"
    /\ splatters' = Delete(splatters, sampleSplatter, "Stop")
    /\ pc' = "idle"
    /\ result' = "stopped"
    /\ UNCHANGED <<alive, configVars, engineVars, workers, heldState, filmVars,
                   exported, historyVars>>

\* Lines 108-109: delete sampleSplatter; sampleSplatter = NULL.
StopDelete ==
    /\ pc = "stop_delete"
    /\ splatters' = Delete(splatters, sampleSplatter, "Stop")
    /\ sampleSplatter' = 0
    /\ pc' = "idle"
    /\ result' = "stopped"
    /\ UNCHANGED <<alive, configVars, bootStrapSeed, startRenderState,
                   hasStartFilm, paramVars, workers, heldState, filmVars,
                   exported, historyVars>>

\* ------------------------------------------------------------- render state

\* GetRenderState snapshotting the seed the next run will use.
GetRenderStateNextSeed ==
    /\ alive
    /\ pc = "idle"
    /\ lineage.hops < MaxResumes
    /\ heldState' = <<LightCPURenderState(NewSeed(bootStrapSeed), lineage)>>
    /\ returned' = returned \cup {heldState'[1].seed}
    /\ result' = "ok"
    /\ entry' = <<>>
    /\ UNCHANGED <<alive, configVars, engineVars, splatters, workers, pc,
                   exported, consumed, lineage, destroyed, splatFault,
                   filmVars>>

\* GetRenderState (lines 47-49): the application keeps what it returns.
GetRenderState ==
    /\ alive
    /\ pc = "idle"
    /\ lineage.hops < MaxResumes
    /\ heldState' = <<LightCPURenderState(bootStrapSeed, lineage)>>
    /\ returned' = returned \cup {heldState'[1].seed}
    /\ result' = "ok"
    /\ entry' = <<>>
    /\ UNCHANGED <<alive, configVars, engineVars, splatters, workers, pc,
                   exported, consumed, lineage, destroyed, splatFault,
                   filmVars>>

\* The application hands the engine a RenderState to start from: the one it
\* holds, or one of another engine.
SetRenderState ==
    /\ alive
    /\ pc = "idle"
    /\ startRenderState = <<>>
    /\ \/ /\ heldState # <<>>
          /\ startRenderState' = heldState
          /\ heldState' = <<>>
       \/ /\ \E st \in OtherRenderStates : startRenderState' = <<st>>
          /\ UNCHANGED heldState
    /\ result' = "ok"
    /\ entry' = <<>>
    /\ destroyed' = 0
    /\ UNCHANGED <<alive, configVars, bootStrapSeed, hasStartFilm,
                   sampleSplatter, paramVars, splatters, workers, pc, exported,
                   consumed, lineage, returned, splatFault, filmVars>>

\* ------------------------------------------------------------------ workers

\* What a splat through sampleSplatter finds: "none" for a live splatter,
\* "absent" for NULL, else the operation that released the object.
SplatThrough(p) ==
    IF p = 0 THEN "absent"
    ELSE IF splatters[p] = "live" THEN "none" ELSE splatters[p]

\* One path of a render thread: it splats through engine->sampleSplatter.
WorkerStep(w) ==
    /\ workers[w] # "stopped"
    /\ workers' = [workers EXCEPT ![w] = "running"]
    /\ splatFault' = IF splatFault = "none" THEN SplatThrough(sampleSplatter)
                     ELSE splatFault
    /\ UNCHANGED <<alive, configVars, engineVars, splatters, pc, result,
                   heldState, filmVars, exported, entry, consumed, lineage,
                   destroyed, returned>>

\* ----------------------------------------------------------- specifications

Start ==
    \/ StartCall
    \/ StartCheckSamplers
    \/ StartParams
    \/ StartRestore
    \/ StartDelete
    \/ StartNew
    \/ StartBase

Stop == StopCall \/ StopBase \/ StopDelete

Destruct == DestructCall \/ DestructDelete \/ DestructBase

\* The engine's life with its workers.
Next ==
    \/ ConstructLifecycle
    \/ Start
    \/ Stop
    \/ Destruct
    \/ GetRenderState
    \/ SetRenderState
    \/ \E w \in Workers : WorkerStep(w)

Spec == Init /\ [][Next]_vars

\* Every configuration, and engines rebuilt from exported Properties.
NextCfg ==
    \/ ConstructAny
    \/ ConstructExported
    \/ ToPropertiesCall
    \/ Start
    \/ Stop
    \/ Destruct

SpecCfg == Init /\ [][NextCfg]_vars

\* ------------------------------------------------- the light-tracing loop

\* The samples the film takes in a run of the model.
MaxSplats == 2

\* What the connection of a path vertex to the camera may contribute.
Contributions == {Finite(10), Finite(50), PInf, NaN}

\* A contribution that is discarded only when it is NaN.
DiscardedNaNOnly(c) == IsNaN(c)

\* A malformed contribution: NaN or infinite radiance.
Discarded(c) == IsNaN(c) \/ IsInf(c)

\* Variance clamping of a contribution before it is splatted: none for a
\* bound of 0.
Clamp(c) ==
    IF sqrtVarianceClampMaxValue > 0 /\ c.v > sqrtVarianceClampMaxValue
    THEN Finite(sqrtVarianceClampMaxValue)
    ELSE c

\* The hard cutoff one bounce late.
PathEndsLate(depth) == depth > maxPathDepth + 1

\* The hard cutoff: the depth exceeds maxPathDepth.
PathEnds(depth) == depth > maxPathDepth

\* Russian roulette is tested once the depth has reached rrDepth.
RouletteApplies(depth) == depth >= rrDepth

\* The configurations the loop is run with: the defaults (5 bounces, roulette
\* from the third on), short paths with a clamp, and no bounce at all.
PathConfigs ==
    { EmptyProps,
      Prop("light.maxdepth", 2) @@ Prop("light.russianroulette.depth", 2)
          @@ Prop("path.clamping.variance.maxvalue", 30),
      Prop("light.maxdepth", 0) }

NoFate == [w |-> 0, fate |-> "none"]

\* An engine constructed for a configuration of PathConfigs and started:
\* its render threads are spawned, its film is clear.
InitPath ==
    /\ alive = TRUE
    /\ camera = "PERSPECTIVE"
    /\ cfg \in PathConfigs
    /\ origCfg = cfg
    /\ bootStrapSeed \in FreshSeeds
    /\ startRenderState = <<>>
    /\ hasStartFilm = FALSE
    /\ sampleSplatter = 1
    /\ maxPathDepth = ResolveMaxPathDepth(cfg)
    /\ rrDepth = ResolveRRDepth(cfg)
    /\ rrImportanceCap = ResolveRRImportanceCap(cfg)
    /\ sqrtVarianceClampMaxValue = ResolveSqrtVarianceClampMaxValue(cfg)
    /\ initialized = TRUE
    /\ splatters = [NoSplatters EXCEPT ![1] = "live"]
    /\ workers = [w \in Workers |-> "spawned"]
    /\ pc = "idle"
    /\ result = "started"
    /\ heldState = <<>>
    /\ exported = <<>>
    /\ entry = <<>>
    /\ consumed = <<>>
    /\ lineage = [root |-> bootStrapSeed, hops |-> 0]
    /\ returned = {}
    /\ splatFault = "none"
    /\ destroyed = 0
    /\ pathDepth = NoPaths
    /\ radiance = ClearFilm
    /\ splatCount = 0
    /\ pathFate = NoFate
    /\ rrBelow = FALSE
    /\ imagePipeline = <<>>
    /\ pixels = ClearImage
    /\ mask = NoMask
    /\ applyKernel = <<>>
    /\ filmOp = "Init"

\* What a step of a render thread's path leaves alone.
pathFrame ==
    <<alive, configVars, engineVars, splatters, pc, result, heldState, exported,
      entry, consumed, lineage, destroyed, returned, toneVars>>

\* A render thread emits a path from a light: its first vertex has depth 1,
\* if the cutoff allows a vertex at all.
PathBegin(w) ==
    /\ workers[w] # "stopped"
    /\ pathDepth[w] = 0
    /\ pathDepth' = [pathDepth EXCEPT ![w] = IF PathEnds(1) THEN 0 ELSE 1]
    /\ workers' = [workers EXCEPT ![w] = "running"]
    /\ pathFate' = IF pathFate.w = w THEN NoFate ELSE pathFate
    /\ UNCHANGED <<radiance, splatCount, rrBelow, splatFault, pathFrame>>

\* The path goes on from a vertex of depth d: roulette is tested where it
\* applies, and the path ends when it fails or at the hard cutoff.
PathGoesOn(w, d) ==
    \E survives \in BOOLEAN :
        /\ rrBelow' = (rrBelow \/ (RouletteApplies(d) /\ d < rrDepth))
        /\ pathDepth' = [pathDepth EXCEPT ![w] =
                            IF RouletteApplies(d) /\ ~survives THEN 0
                            ELSE IF PathEnds(d + 1) THEN 0
                            ELSE d + 1]

\* One vertex of a path: the vertex is connected to the camera or not; a
\* malformed contribution is discarded and the path with it, any other is
\* clamped and splatted through engine->sampleSplatter; then the path
\* bounces or ends.
PathVertex(w) ==
    /\ workers[w] # "stopped"
    /\ pathDepth[w] > 0
    /\ \/ /\ pathFate' = [w |-> w, fate |-> "missed"]
          /\ PathGoesOn(w, pathDepth[w])
          /\ UNCHANGED <<radiance, splatCount, splatFault>>
       \/ /\ \E c \in Contributions, p \in FilmPixels :
                IF Discarded(c)
                THEN /\ pathFate' = [w |-> w, fate |-> "discarded"]
                     /\ pathDepth' = [pathDepth EXCEPT ![w] = 0]
                     /\ UNCHANGED <<radiance, splatCount, rrBelow, splatFault>>
                ELSE /\ splatCount < MaxSplats
                     /\ radiance' = [radiance EXCEPT ![p] = FAdd(@, Clamp(c))]
                     /\ splatCount' = splatCount + 1
                     /\ splatFault' = IF splatFault = "none"
                                      THEN SplatThrough(sampleSplatter)
                                      ELSE splatFault
                     /\ pathFate' = [w |-> w, fate |-> "splatted"]
                     /\ PathGoesOn(w, pathDepth[w])
    /\ UNCHANGED <<workers, pathFrame>>

\* A run of the render threads, from a successful Start to Stop.
NextPath ==
    \/ \E w \in Workers : PathBegin(w)
    \/ \E w \in Workers : PathVertex(w)
    \/ Stop

SpecPath == InitPath /\ [][NextPath]_vars

\* -------------------------------------------------------- AutoLinearToneMap

\* Line 59: float gamma = 2.2f (gammas are in tenths).
DefaultGamma == 22

\* The values a GammaCorrectionPlugin's gamma is given.
Gammas == {10, 22}

\* The colours a pixel of RGB_TONEMAPPED holds, and Spectrum::Y() of each.
Colours == {"black", "lit", "overflowed", "corrupt"}

SpectrumY(c) ==
    CASE c = "black" -> Finite(0)
      [] c = "lit" -> Finite(20)
      [] c = "overflowed" -> PInf
      [] c = "corrupt" -> NaN

\* A pixel as the film's merge of its radiance channels writes it.
RawPixel(c) == [c |-> c, scale |-> <<>>]

\* The image the tone map is given: no pixel is scaled yet.
Unscaled == \A p \in FilmPixels : pixels[p].scale = <<>>

\* The film's image is refreshed from the radiance channels, and pixel p has
\* got the colour c and the mask value m since.
FilmUpdate ==
    /\ \E p \in FilmPixels, c \in Colours, m \in BOOLEAN :
          /\ pixels' = [q \in FilmPixels |->
                            IF q = p THEN RawPixel(c) ELSE RawPixel(pixels[q].c)]
          /\ mask' = [mask EXCEPT ![p] = m]
    /\ filmOp' = "FilmUpdate"
    /\ UNCHANGED <<imagePipeline, applyKernel, engineFrame, pathVars>>

\* An image pipeline: its GammaCorrectionPlugin, <<>> for none, else <<gamma>>.
ImagePipeline(gc) == [gc |-> gc]

\* The film is given an image pipeline with no gamma correction.
SetImagePipeline ==
    /\ imagePipeline = <<>>
    /\ imagePipeline' = <<ImagePipeline(<<>>)>>
    /\ filmOp' = "ImagePipeline"
    /\ UNCHANGED <<pixels, mask, applyKernel, engineFrame, pathVars>>

\* A GammaCorrectionPlugin is added to the pipeline.
AddGammaCorrection ==
    /\ imagePipeline # <<>>
    /\ imagePipeline[1].gc = <<>>
    /\ \E g \in Gammas : imagePipeline' = <<ImagePipeline(<<g>>)>>
    /\ filmOp' = "ImagePipeline"
    /\ UNCHANGED <<pixels, mask, applyKernel, engineFrame, pathVars>>

\* The plugin's gamma is changed.
SetGamma ==
    /\ imagePipeline # <<>>
    /\ imagePipeline[1].gc # <<>>
    /\ \E g \in Gammas \ {imagePipeline[1].gc[1]} :
          imagePipeline' = <<ImagePipeline(<<g>>)>>
    /\ filmOp' = "ImagePipeline"
    /\ UNCHANGED <<pixels, mask, applyKernel, engineFrame, pathVars>>

\* GetGammaCorrectionValue (lines 58-68).
GetGammaCorrectionValue ==
    IF imagePipeline # <<>>
    THEN IF imagePipeline[1].gc # <<>> THEN imagePipeline[1].gc[1]
         ELSE DefaultGamma
    ELSE DefaultGamma

\* CalcLinearToneMapScale (lines 70-77): 1.25f / Y * powf(118.f / 255.f,
\* gamma), kept as the Y and the gamma it is computed from.
CalcLinearToneMapScale(Y) == [Y |-> Y, gamma |-> GetGammaCorrectionValue]

\* The sum of lines 87-96 with the test of the mask left out.
RECURSIVE SumLuminanceMaskIgnored(_, _, _)
SumLuminanceMaskIgnored(px, mk, n) ==
    IF n = 0 THEN Finite(0)
    ELSE LET Y == SumLuminanceMaskIgnored(px, mk, n - 1)
             y == SpectrumY(px[n].c)
         IN  IF LeZero(y) \/ IsInf(y) THEN Y ELSE FAdd(Y, y)

\* Lines 87-96: the sum of the luminances over the first n pixels.
RECURSIVE SumLuminance(_, _, _)
SumLuminance(px, mk, n) ==
    IF n = 0 THEN Finite(0)
    ELSE LET Y == SumLuminance(px, mk, n - 1)
             y == SpectrumY(px[n].c)
         IN  IF mk[n]
             THEN IF LeZero(y) \/ IsInf(y) THEN Y ELSE FAdd(Y, y)
             ELSE Y

\* Lines 87-97: Y, kept as the sum and what line 97 divides it by.
AverageLuminance(px, mk) ==
    [sum |-> SumLuminance(px, mk, PixelCount), count |-> PixelCount]

\* Line 99: Y <= 0.f, for a Y with a positive count.
AverageLeZero(Y) == LeZero(Y.sum)

\* scale * pixels[i] applied to the pixels counted in the average only.
ScaleMaskedCountedOnly(px, mk, scale) ==
    [p \in FilmPixels |->
        IF mk[p] /\ ~LeZero(SpectrumY(px[p].c)) /\ ~IsInf(SpectrumY(px[p].c))
        THEN [px[p] EXCEPT !.scale = <<scale>>]
        ELSE px[p]]

\* Lines 104-115: pixels[i] = scale * pixels[i] where the mask is set.
ScaleMasked(px, mk, scale) ==
    [p \in FilmPixels |->
        IF mk[p] THEN [px[p] EXCEPT !.scale = <<scale>>] ELSE px[p]]

\* AutoLinearToneMap::Apply (lines 83-116).
Apply ==
    /\ Unscaled
    /\ LET Y == AverageLuminance(pixels, mask) IN
       IF AverageLeZero(Y) THEN UNCHANGED pixels
       ELSE pixels' = ScaleMasked(pixels, mask, CalcLinearToneMapScale(Y))
    /\ filmOp' = "Apply"
    /\ UNCHANGED <<imagePipeline, mask, applyKernel, engineFrame, pathVars>>

\* The kernels enqueued at lines 178-184 (SumRGBValuesReduce,
\* SumRGBValueAccumulate, AutoLinearToneMap_Apply): the operation of Apply
\* with the gamma the apply kernel has as its argument.
OCLKernels(px, mk, gamma) ==
    LET Y == AverageLuminance(px, mk) IN
    IF AverageLeZero(Y) THEN px
    ELSE ScaleMasked(px, mk, [Y |-> Y, gamma |-> gamma])

\* AutoLinearToneMap::ApplyOCL (lines 123-185): the kernels are created and
\* given their arguments, the gamma among them, when applyKernel is NULL.
ApplyOCL ==
    /\ Unscaled
    /\ applyKernel' = IF applyKernel = <<>>
                      THEN <<[gamma |-> GetGammaCorrectionValue]>>
                      ELSE applyKernel
    /\ pixels' = OCLKernels(pixels, mask, applyKernel'[1].gamma)
    /\ filmOp' = "ApplyOCL"
    /\ UNCHANGED <<imagePipeline, mask, engineFrame, pathVars>>

\* The tone map in its pipeline, on either backend.
NextTone ==
    \/ FilmUpdate
    \/ SetImagePipeline
    \/ AddGammaCorrection
    \/ SetGamma
    \/ Apply
    \/ ApplyOCL

SpecTone == Init /\ [][NextTone]_vars

\* ------------------------------------------------------------------- claims

\* C1: seed monotonicity across resumes.  A run that was started from a
\* RenderState uses the seed stored in that state plus one, so the k-th
\* resumed run of a chain that began with seed s uses s + k (u_int
\* arithmetic): no repeat, no gap.
C1_SeedMonotonicity ==
    consumed # <<>> =>
        /\ bootStrapSeed = (consumed[1].seed + 1) % UIntModulus
        /\ bootStrapSeed = (lineage.root + lineage.hops) % UIntModulus

\* C2: stereo rejection.  Construction throws exactly when the camera type is
\* stereo, and no engine exists with a stereo camera.
C2_StereoRejection ==
    /\ alive => camera # "STEREO"
    /\ result = "runtime_error" => ~alive /\ camera = "STEREO"
    /\ result = "constructed" => alive /\ camera # "STEREO"
    /\ (~alive /\ camera = "STEREO") => result = "runtime_error"

\* A construction with a stereo camera has thrown.
C2_Witness == result = "runtime_error" /\ camera = "STEREO" /\ ~alive

\* C3: configuration round trip.  The parameters an engine resolves from
\* ToProperties(cfg) are those an engine resolves from cfg itself.
C3_RoundTrip ==
    initialized =>
        /\ maxPathDepth = ResolveMaxPathDepth(origCfg)
        /\ rrDepth = ResolveRRDepth(origCfg)
        /\ rrImportanceCap = ResolveRRImportanceCap(origCfg)
        /\ sqrtVarianceClampMaxValue = ResolveSqrtVarianceClampMaxValue(origCfg)

\* What a failed Start must have left alone besides the engine's fields: no
\* splatter created or released, no render thread spawned.
NothingStarted ==
    /\ entry # <<>>
    /\ sampleSplatter = entry[1].sampleSplatter
    /\ splatters = entry[1].splatters
    /\ \A w \in Workers :
          /\ workers[w] # "spawned"
          /\ entry[1].workers[w] = "stopped" => workers[w] = "stopped"

StartPastRestore == pc \in {"start_delete", "start_new", "start_base"}

\* C4: render-state type check.  A Start that finds a pending RenderState of
\* another engine type fails at the check, and then the seed, hasStartFilm
\* and the pending state are as Start found them, no splatter was created
\* and no worker spawned.
C4_TypeMismatchNotApplied ==
    /\ StartPastRestore =>
          \/ entry[1].startRenderState = <<>>
          \/ entry[1].startRenderState[1].tag = GetObjectTag
    /\ result = "RenderStateTypeMismatch" =>
          /\ NothingStarted
          /\ entry[1].startRenderState # <<>>
          /\ entry[1].startRenderState[1].tag # GetObjectTag
          /\ bootStrapSeed = entry[1].bootStrapSeed
          /\ hasStartFilm = entry[1].hasStartFilm
          /\ startRenderState = entry[1].startRenderState

\* A Start has failed the type check on an engine that had run before.
C4_Witness ==
    /\ result = "RenderStateTypeMismatch"
    /\ pc = "idle"
    /\ startRenderState # <<>>
    /\ \E w \in Workers : workers[w] = "running"

\* C5: no use after release of the Sample Splatter.  No worker splats through
\* a splatter that Start or Stop has released, or through a NULL splatter.
C5_NoUseAfterRelease == splatFault \notin {"absent", "Start", "Stop"}

\* C6: resume ordering.  When a worker of a run that was started from a
\* RenderState traces its first path, the bootstrap seed is the stored seed
\* plus one and the Sample Splatter is there.
C6_ResumeOrdering ==
    [][\A w \in Workers :
          (/\ workers[w] = "spawned" /\ workers'[w] = "running"
           /\ pc' = pc
           /\ consumed # <<>>) =>
              /\ bootStrapSeed = (consumed[1].seed + 1) % UIntModulus
              /\ SplatThrough(sampleSplatter) = "none"]_vars

\* C7: incompatible sampler.  Start goes on past the sampler check only with
\* a compatible sampler; when it fails the check, every field of the engine,
\* the pending RenderState included, is as Start found it, no splatter was
\* created and no worker spawned.
C7_IncompatibleSamplerNoEffect ==
    /\ (StartPastRestore \/ pc \in {"start_params", "start_restore"}) => SamplerOK(cfg)
    /\ result = "IncompatibleSampler" =>
          /\ ~SamplerOK(cfg)
          /\ NothingStarted
          /\ bootStrapSeed = entry[1].bootStrapSeed
          /\ hasStartFilm = entry[1].hasStartFilm
          /\ startRenderState = entry[1].startRenderState
          /\ maxPathDepth = entry[1].maxPathDepth
          /\ rrDepth = entry[1].rrDepth
          /\ rrImportanceCap = entry[1].rrImportanceCap
          /\ sqrtVarianceClampMaxValue = entry[1].sqrtVarianceClampMaxValue
          /\ initialized = entry[1].initialized

\* A Start with a pending RenderState has failed the sampler check.
C7_Witness ==
    /\ result = "IncompatibleSampler"
    /\ pc = "idle"
    /\ startRenderState # <<>>

\* C8: variance-clamp resolution.  Once Start has read the parameters,
\* sqrtVarianceClampMaxValue is max(0, v), v being the new key's value if it
\* is defined, else the legacy key's if that is defined, else 0.
C8_VarianceClampResolution ==
    initialized =>
        LET v == IF "path.clamping.variance.maxvalue" \in DOMAIN cfg
                 THEN cfg["path.clamping.variance.maxvalue"]
                 ELSE IF "path.clamping.radiance.maxvalue" \in DOMAIN cfg
                      THEN cfg["path.clamping.radiance.maxvalue"]
                      ELSE 0
        IN /\ sqrtVarianceClampMaxValue = (IF v < 0 THEN 0 ELSE v)
           /\ sqrtVarianceClampMaxValue >= 0

\* Both keys are defined, the new one negative: it wins and is clamped to 0.
C8_Witness ==
    /\ initialized
    /\ {"path.clamping.variance.maxvalue", "path.clamping.radiance.maxvalue"}
          \subseteq DOMAIN cfg
    /\ cfg["path.clamping.variance.maxvalue"] < 0
    /\ cfg["path.clamping.radiance.maxvalue"] > 0
    /\ sqrtVarianceClampMaxValue = 0

\* C9: path-parameter defaults.  Once Start has read the parameters, each of
\* maxPathDepth, rrDepth and rrImportanceCap is its key's configured value,
\* or 5, 3 and 0.5 when the key is absent.
C9_PathParameterDefaults ==
    initialized =>
        /\ maxPathDepth =
              (IF "light.maxdepth" \in DOMAIN cfg THEN cfg["light.maxdepth"] ELSE 5)
        /\ rrDepth =
              (IF "light.russianroulette.depth" \in DOMAIN cfg
               THEN cfg["light.russianroulette.depth"] ELSE 3)
        /\ rrImportanceCap =
              (IF "light.russianroulette.cap" \in DOMAIN cfg
               THEN cfg["light.russianroulette.cap"] ELSE 5)

\* An engine has started with none of the three keys configured.
C9_Witness ==
    /\ result = "started"
    /\ DOMAIN cfg \cap {"light.maxdepth", "light.russianroulette.depth",
                        "light.russianroulette.cap"} = {}
    /\ maxPathDepth = 5 /\ rrDepth = 3 /\ rrImportanceCap = 5

\* C10: GetRenderState is a pure snapshot.  The state it returns carries this
\* engine's tag and the current bootstrap seed, the engine is left as it was,
\* and every call between two Starts returns the same seed.
C10_PureSnapshot ==
    /\ [](returned \subseteq {bootStrapSeed})
    /\ [][(heldState' # <<>> /\ heldState' # heldState) =>
             /\ heldState'[1].tag = GetObjectTag
             /\ heldState'[1].seed = bootStrapSeed
             /\ UNCHANGED <<alive, configVars, engineVars, splatters, workers>>]_vars

\* A running engine that was resumed has been snapshotted.
C10_Witness ==
    /\ heldState # <<>>
    /\ returned = {bootStrapSeed}
    /\ hasStartFilm
    /\ \E w \in Workers : workers[w] = "running"

\* The pixels the average is meant to be taken over: the mask is set and the
\* luminance is neither non-positive nor infinite.
ValidPixels ==
    {p \in FilmPixels :
        /\ mask[p]
        /\ ~LeZero(SpectrumY(pixels[p].c))
        /\ ~IsInf(SpectrumY(pixels[p].c))}

RECURSIVE LuminanceOver(_)
LuminanceOver(S) ==
    IF S = {} THEN Finite(0)
    ELSE LET p == CHOOSE q \in S : TRUE
         IN  FAdd(LuminanceOver(S \ {p}), SpectrumY(pixels[p].c))

\* The Y the scale of a scaled pixel was derived from is the mean over the
\* valid pixels: sum / count = LuminanceOver(ValidPixels) / |ValidPixels|.
MeanOverValid(Y) ==
    /\ Y.sum = LuminanceOver(ValidPixels)
    /\ Y.sum.k = "fin" =>
          Y.sum.v * Cardinality(ValidPixels) =
              LuminanceOver(ValidPixels).v * Y.count

\* C11  Tone-map average over valid pixels: the average luminance Y from
\* which AutoLinearToneMap::Apply derives the scale is the sum of the
\* luminances of the valid pixels divided by the number of valid pixels;
\* masked-out pixels and pixels of non-positive or infinite luminance count
\* neither in the sum nor in the divisor.
C11_AverageOverValidPixels ==
    filmOp = "Apply" =>
        \A p \in FilmPixels :
            pixels[p].scale # <<>> => MeanOverValid(pixels[p].scale[1].Y)

\* C11 as amended: the Y from which Apply derives the scale is the sum of
\* the luminances of the valid pixels (masked-out pixels and pixels of
\* non-positive or infinite luminance add nothing to it) divided by the
\* number of all the pixels of the film.
C11_SumOverValidPixels ==
    filmOp = "Apply" =>
        \A p \in FilmPixels :
            pixels[p].scale # <<>> =>
                /\ pixels[p].scale[1].Y.sum = LuminanceOver(ValidPixels)
                /\ pixels[p].scale[1].Y.count = Cardinality(FilmPixels)

\* Apply has scaled a film with a valid pixel, a lit pixel that is masked
\* out and a masked-in pixel of infinite luminance.
C11_Witness ==
    /\ filmOp = "Apply"
    /\ \E p, q, r \in FilmPixels :
          /\ p \in ValidPixels /\ pixels[p].scale # <<>>
          /\ ~mask[q] /\ pixels[q].c = "lit"
          /\ mask[r] /\ pixels[r].c = "overflowed"

\* C12  Tone-map scaling frame: when Apply computes a positive average
\* luminance (some pixel is valid and no masked-in pixel is NaN), every pixel
\* whose mask is set becomes scale times its previous value, also those the
\* average skipped, with the one scale 1.25 / Y * (118/255)^gamma of a
\* positive Y and the current gamma, and every pixel whose mask is not set
\* keeps its value.
C12_ScalesMaskedPixelsOnly ==
    [][(/\ filmOp' = "Apply"
        /\ ValidPixels # {}
        /\ \A p \in FilmPixels : mask[p] => ~IsNaN(SpectrumY(pixels[p].c)))
       => /\ mask' = mask
          /\ \E Y \in {AverageLuminance(pixels, mask)} :
                /\ Y.sum.k = "fin" /\ Y.sum.v > 0
                /\ \A p \in FilmPixels :
                      /\ mask[p] =>
                            pixels'[p] =
                                [c |-> pixels[p].c,
                                 scale |-> <<[Y |-> Y,
                                              gamma |-> GetGammaCorrectionValue]>>]
                      /\ ~mask[p] => pixels'[p] = pixels[p]]_vars

\* Apply has scaled a film with a valid pixel, a masked-in pixel the average
\* skipped and a masked-out pixel.
C12_Witness ==
    /\ filmOp = "Apply"
    /\ \E p, q, r \in FilmPixels :
          /\ mask[p] /\ pixels[p].c = "lit" /\ pixels[p].scale # <<>>
          /\ mask[q] /\ pixels[q].c \in {"black", "overflowed"}
          /\ pixels[q].scale # <<>>
          /\ ~mask[r] /\ pixels[r].c = "lit" /\ pixels[r].scale = <<>>

\* C13  Backend equivalence of gamma: on every application, ApplyOCL scales
\* with the gamma Apply would use, the current gamma of the pipeline's
\* GammaCorrectionPlugin, or 2.2 when there is none.
C13_BackendsUseSameGamma ==
    [][filmOp' = "ApplyOCL" =>
          \A p \in FilmPixels :
              pixels'[p].scale # <<>> =>
                  pixels'[p].scale[1].gamma =
                      (IF imagePipeline # <<>> /\ imagePipeline[1].gc # <<>>
                       THEN imagePipeline[1].gc[1] ELSE 22)]_vars

\* C20  Tone-map no-op on an empty average: when no pixel whose mask is set
\* has a positive finite luminance, Apply modifies no pixel of the film.
C20_NoOpOnEmptyAverage ==
    [][(/\ filmOp' = "Apply"
        /\ \A p \in FilmPixels :
              mask[p] => SpectrumY(pixels[p].c).k # "fin"
                         \/ SpectrumY(pixels[p].c).v <= 0)
       => pixels' = pixels]_vars

\* C16  A RenderState is consumed exactly once: after a successful Start
\* that found a pending RenderState the engine holds no pending state and has
\* deleted the consumed object once, no RenderState handed to the engine is
\* ever deleted twice, and the seed of a living engine changes only in a
\* step that consumes a pending state, so a later Stop and Start with no new
\* state leaves it.
C16_ConsumedExactlyOnce ==
    /\ [](/\ (result = "started" /\ consumed # <<>>) =>
                (startRenderState = <<>> /\ destroyed = 1)
          /\ destroyed <= 1)
    /\ [][(alive /\ alive' /\ bootStrapSeed' # bootStrapSeed) =>
             /\ startRenderState # <<>>
             /\ startRenderState' = <<>>
             /\ destroyed' = destroyed + 1]_vars

\* A resumed run was stopped and the engine started again with no new state.
C16_Witness ==
    /\ result = "started"
    /\ consumed = <<>>
    /\ destroyed = 1
    /\ \E p \in 1..MaxSplatters : splatters[p] = "Stop"

\* C17  hasStartFilm tracks resumption: once a Start is past lines 79-95,
\* and after it has succeeded, hasStartFilm is true exactly if a RenderState
\* was pending when that Start was entered, whatever it was before.
C17_HasStartFilmTracksResume ==
    /\ StartPastRestore =>
          (hasStartFilm <=> entry[1].startRenderState # <<>>)
    /\ result = "started" => (hasStartFilm <=> consumed # <<>>)

\* A Start without a pending state has succeeded on an engine that a
\* resumed run had left with hasStartFilm set.
C17_Witness ==
    /\ result = "started"
    /\ ~hasStartFilm
    /\ consumed = <<>>
    /\ lineage.hops > 0

\* C18  Single-owner Sample Splatter: at most one splatter is live and it
\* is the one the engine points to, no splatter is released twice, none is
\* live when the destructor has run line 36, the engine points to a live
\* splatter after a successful Start and to none after construction and
\* after Stop.
C18_SingleOwnerSplatter ==
    /\ \A p \in 1..MaxSplatters :
          /\ splatters[p] = "live" => p = sampleSplatter
          /\ splatters[p] # "released twice"
          /\ pc = "dtor_base" => splatters[p] # "live"
    /\ result = "started" =>
          sampleSplatter # 0 /\ splatters[sampleSplatter] = "live"
    /\ result \in {"constructed", "stopped"} => sampleSplatter = 0

\* An engine started twice is destroyed without Stop: the first splatter was
\* released by the second Start, the second by the destructor.
C18_Witness ==
    /\ pc = "dtor_base"
    /\ \E p, q \in 1..MaxSplatters :
          splatters[p] = "Start" /\ splatters[q] = "Destruct"

\* C19  Parameter range after Start: after every successful Start, whatever
\* value light.russianroulette.cap is configured with, rrImportanceCap is
\* in (0, 1] (in tenths: 1..10).
C19_RRImportanceCapInRange ==
    result = "started" => (rrImportanceCap > 0 /\ rrImportanceCap <= 10)

\* C14  Corrupted-path isolation: no pixel of the film's radiance channel
\* ever holds a NaN or an infinite value, and the step in which a render
\* thread finds the contribution of its path NaN or infinite leaves every
\* pixel and the sample count as they were, ends that path and leaves the
\* thread running, ready for its next path.
C14_CorruptedPathIsolation ==
    /\ [](\A p \in FilmPixels : radiance[p].k = "fin")
    /\ [][\A w \in Workers :
             (pathFate' # pathFate /\ pathFate' = [w |-> w, fate |-> "discarded"])
             => /\ radiance' = radiance
                /\ splatCount' = splatCount
                /\ pathDepth'[w] = 0
                /\ workers'[w] = "running"]_vars

\* A path was discarded on a film that holds samples of valid paths.
C14_Witness ==
    /\ pathFate.fate = "discarded"
    /\ splatCount > 0
    /\ \E p \in FilmPixels : radiance[p].v > 0

\* C15  Path termination: a path in flight is never at a depth beyond
\* maxPathDepth and every step of it takes it one vertex further or ends
\* it, so it ends after at most maxPathDepth bounces however the roulette
\* tests turn out; no roulette test is made at a depth below rrDepth: a path
\* that ends before the cutoff, and not by being discarded, is at rrDepth or
\* deeper.
C15_PathTermination ==
    /\ [](/\ \A w \in Workers : pathDepth[w] >= 0 /\ pathDepth[w] <= maxPathDepth
          /\ ~rrBelow)
    /\ [][\A w \in Workers :
             /\ pathDepth'[w] \in {pathDepth[w], pathDepth[w] + 1, 0}
             /\ (/\ pathDepth[w] > 0
                 /\ pathDepth'[w] = 0
                 /\ pathDepth[w] < maxPathDepth
                 /\ pathFate' # [w |-> w, fate |-> "discarded"])
                => pathDepth[w] >= rrDepth]_vars

\* A path of the default configuration has survived its roulette tests up
\* to the last vertex the cutoff allows.
C15_Witness ==
    /\ maxPathDepth > rrDepth
    /\ \E w \in Workers : pathDepth[w] = maxPathDepth

====
